---- MODULE Spec2Model ----
(***************************************************************************)
(* Near-Earth objects and their close approaches (models.py) and the two   *)
(* export routines (write.py).                                             *)
(*                                                                         *)
(* Python values are tagged records; strings are sequences of one-char     *)
(* strings, so that float() and str() are computed character by character. *)
(* A float is mantissa m and a count e of decimal places (value m / 10^e), *)
(* kept normalised, or the not-a-number value.                             *)
(***************************************************************************)
EXTENDS Integers, Sequences, FiniteSets, TLC

VARIABLES
    neoObj,   \* the NearEarthObject constructed, None before, or the exception raised
    neoArgs,  \* the arguments its constructor was called with
    caObj,    \* the CloseApproach constructed, likewise
    caArgs,   \* the arguments its constructor was called with
    shown,    \* the last value read from fullname or __str__
    pc,       \* position in the running write_to_csv / write_to_json call
    fn,       \* the function called
    items,    \* the records the results iterable yields, in order
    ending,   \* how the iterable ends: "stop" (exhausted) or "raise"
    pos,      \* how many records the loop has consumed
    f,        \* the file object of the with statement
    disk,     \* the file at the destination path
    prior,    \* the file at the destination path when the call began
    output,   \* write_to_json's list
    exc,      \* the exception in flight, None when there is none
    result,   \* how the call ended: None (returned) or the exception raised
    opens     \* how many times the call has opened the destination

vars == <<neoObj, neoArgs, caObj, caArgs, shown,
          pc, fn, items, ending, pos, f, disk, prior, output, exc, result, opens>>

writeVars == <<pc, fn, items, ending, pos, f, disk, prior, output, exc, result, opens>>
recordVars == <<neoObj, neoArgs, caObj, caArgs, shown>>

(* ------------------------- Python values ------------------------------ *)

None == [t |-> "NoneType"]
PyStr(s) == [t |-> "str", s |-> s]
PyInt(n) == [t |-> "int", n |-> n]
PyBool(b) == [t |-> "bool", b |-> b]
Raised(e) == [t |-> "exc", exc |-> e]

RECURSIVE Normal(_, _)
Normal(m, e) == IF e > 0 /\ m % 10 = 0 THEN Normal(m \div 10, e - 1) ELSE <<m, e>>

Float(m, e) == [t |-> "float", nan |-> FALSE, m |-> Normal(m, e)[1], e |-> Normal(m, e)[2]]
NaN == [t |-> "float", nan |-> TRUE, m |-> 0, e |-> 0]

IsExc(v) == "t" \in DOMAIN v /\ v.t = "exc"
isnan(v) == v.t = "float" /\ v.nan

DigitChars == <<"0", "1", "2", "3", "4", "5", "6", "7", "8", "9">>
IsDigit(c) == \E i \in DOMAIN DigitChars : DigitChars[i] = c
DigitVal(c) == (CHOOSE i \in DOMAIN DigitChars : DigitChars[i] = c) - 1

RECURSIVE DigitsToNat(_)
DigitsToNat(ds) ==
    IF ds = <<>> THEN 0
    ELSE 10 * DigitsToNat(SubSeq(ds, 1, Len(ds) - 1)) + DigitVal(ds[Len(ds)])

RECURSIVE NatToDigits(_)
NatToDigits(n) ==
    IF n < 10 THEN <<DigitChars[n + 1]>>
    ELSE NatToDigits(n \div 10) \o <<DigitChars[(n % 10) + 1]>>

RECURSIVE Zeros(_)
Zeros(k) == IF k <= 0 THEN <<>> ELSE <<"0">> \o Zeros(k - 1)

RECURSIVE strip(_)
strip(s) ==
    IF s # <<>> /\ s[1] = " " THEN strip(Tail(s))
    ELSE IF s # <<>> /\ s[Len(s)] = " " THEN strip(SubSeq(s, 1, Len(s) - 1))
    ELSE s

(* float() of a string: optional sign, digits with at most one point and  *)
(* at least one digit, surrounding blanks ignored; anything else is a      *)
(* ValueError.                                                             *)
ParseFloat(s) ==
    LET u      == strip(s)
        signed == u # <<>> /\ u[1] \in {"+", "-"}
        body   == IF signed THEN Tail(u) ELSE u
        points == {i \in DOMAIN body : body[i] = "."}
        digits == SelectSeq(body, IsDigit)
        wellformed == /\ Cardinality(points) <= 1
                      /\ \A i \in DOMAIN body : body[i] = "." \/ IsDigit(body[i])
                      /\ digits # <<>>
        places == IF points = {} THEN 0
                  ELSE Len(body) - (CHOOSE i \in points : TRUE)
        mag    == DigitsToNat(digits)
    IN  IF ~wellformed THEN Raised("ValueError")
        ELSE Float(IF signed /\ u[1] = "-" THEN 0 - mag ELSE mag, places)

\* float(x), the builtin
float(x) ==
    CASE x.t = "NoneType" -> Raised("TypeError")
      [] x.t = "str"      -> ParseFloat(x.s)
      [] x.t = "int"      -> Float(x.n, 0)
      [] x.t = "bool"     -> Float(IF x.b THEN 1 ELSE 0, 0)
      [] x.t = "float"    -> x

\* repr of a float as str() and the csv module write it
FloatRepr(x) ==
    IF x.nan THEN <<"n", "a", "n">>
    ELSE LET mag  == IF x.m < 0 THEN 0 - x.m ELSE x.m
             raw  == NatToDigits(mag)
             ds   == Zeros(x.e + 1 - Len(raw)) \o raw
             whole == SubSeq(ds, 1, Len(ds) - x.e)
             frac == IF x.e = 0 THEN <<"0">> ELSE SubSeq(ds, Len(ds) - x.e + 1, Len(ds))
         IN  (IF x.m < 0 THEN <<"-">> ELSE <<>>) \o whole \o <<".">> \o frac

\* str(x), the builtin
str(x) ==
    CASE x.t = "NoneType" -> PyStr(<<"N", "o", "n", "e">>)
      [] x.t = "str"      -> x
      [] x.t = "int"      -> PyStr((IF x.n < 0 THEN <<"-">> ELSE <<>>)
                                 \o NatToDigits(IF x.n < 0 THEN 0 - x.n ELSE x.n))
      [] x.t = "bool"     -> PyStr(IF x.b THEN <<"T", "r", "u", "e">>
                                        ELSE <<"F", "a", "l", "s", "e">>)
      [] x.t = "float"    -> PyStr(FloatRepr(x))

\* truth value of x in a condition
truthy(x) ==
    CASE x.t = "NoneType" -> FALSE
      [] x.t = "str"      -> x.s # <<>>
      [] x.t = "int"      -> x.n # 0
      [] x.t = "bool"     -> x.b
      [] x.t = "float"    -> x.nan \/ x.m # 0
      [] OTHER            -> TRUE

\* x == y for the values compared in the source (a str literal on the right)
PyEq(x, y) == x.t = y.t /\ x.t = "str" /\ x.s = y.s

\* a + b on strings; anything else with a str operand is a TypeError
Concat(a, b) ==
    IF IsExc(a) THEN a
    ELSE IF IsExc(b) THEN b
    ELSE IF a.t = "str" /\ b.t = "str" THEN PyStr(a.s \o b.s)
    ELSE Raised("TypeError")

(* ------------------------- helpers (external) -------------------------- *)

MonthNames == <<"Jan", "Feb", "Mar", "Apr", "May", "Jun",
                "Jul", "Aug", "Sep", "Oct", "Nov", "Dec">>

\* A calendar string "2020-Jan-01 12:30" is given by its fields:
\* <<year, month name, day, hour, minute>>.
cd_to_datetime(cd) ==
    [year |-> cd[1], month |-> CHOOSE i \in DOMAIN MonthNames : MonthNames[i] = cd[2],
     day |-> cd[3], hour |-> cd[4], minute |-> cd[5]]

\* "%Y-%m-%d %H:%M": a string of the fields in that order, the month as a
\* number, no seconds
datetime_to_str(dt) == PyStr(<<dt.year, dt.month, dt.day, dt.hour, dt.minute>>)

(* ------------------------- models.py ---------------------------------- *)

Blank == PyStr(<<" ">>)
Y == PyStr(<<"Y">>)
UnknownObject == PyStr(<<"a", "n", " ", "u", "n", "k", "n", "o", "w", "n", " ", "o", "b", "j", "e", "c", "t">>)
UnknownDistance == PyStr(<<"a", "n", " ", "u", "n", "k", "n", "o", "w", "n", " ", "d", "i", "s", "t", "a", "n", "c", "e">>)
UnknownVelocity == PyStr(<<"a", "n", " ", "u", "n", "k", "n", "o", "w", "n", " ", "v", "e", "l", "o", "c", "i", "t", "y">>)
By == PyStr(<<"b", "y", " ">>)
Au == PyStr(<<" ", "a", "u">>)
KmPerS == PyStr(<<" ", "k", "m", "/", "s">>)

\* mutant: the diameter's except clause names ValueError alone
NearEarthObject_OnlyValueError(pdes, name, pha, diameter) ==
    LET parsed == float(diameter)
        dia    == IF IsExc(parsed) /\ parsed.exc \in {"ValueError"} THEN NaN ELSE parsed
    IN  IF IsExc(dia) THEN dia
        ELSE [t           |-> "NearEarthObject",
              designation |-> IF truthy(pdes) THEN str(pdes) ELSE None,
              name        |-> IF truthy(name) THEN str(name) ELSE None,
              diameter    |-> dia,
              hazardous   |-> PyBool(PyEq(pha, Y)),
              approaches  |-> <<>>]

\* mutant: the hazard flag is compared without regard to case
NearEarthObject_AnyCase(pdes, name, pha, diameter) ==
    LET parsed == float(diameter)
        dia    == IF IsExc(parsed) /\ parsed.exc \in {"ValueError", "TypeError"}
                  THEN NaN ELSE parsed
    IN  IF IsExc(dia) THEN dia
        ELSE [t           |-> "NearEarthObject",
              designation |-> IF truthy(pdes) THEN str(pdes) ELSE None,
              name        |-> IF truthy(name) THEN str(name) ELSE None,
              diameter    |-> dia,
              hazardous   |-> PyBool(PyEq(pha, Y) \/ PyEq(pha, PyStr(<<"y">>))),
              approaches  |-> <<>>]

\* mutant: designation and name are tested against None instead of for truth
NearEarthObject_NotNone(pdes, name, pha, diameter) ==
    LET parsed == float(diameter)
        dia    == IF IsExc(parsed) /\ parsed.exc \in {"ValueError", "TypeError"}
                  THEN NaN ELSE parsed
    IN  IF IsExc(dia) THEN dia
        ELSE [t           |-> "NearEarthObject",
              designation |-> IF pdes # None THEN str(pdes) ELSE None,
              name        |-> IF name # None THEN str(name) ELSE None,
              diameter    |-> dia,
              hazardous   |-> PyBool(PyEq(pha, Y)),
              approaches  |-> <<>>]

\* NearEarthObject.__init__: the object, or the exception that escapes it
NearEarthObject(pdes, name, pha, diameter) ==
    LET parsed == float(diameter)
        dia    == IF IsExc(parsed) /\ parsed.exc \in {"ValueError", "TypeError"}
                  THEN NaN ELSE parsed
    IN  IF IsExc(dia) THEN dia
        ELSE [t           |-> "NearEarthObject",
              designation |-> IF truthy(pdes) THEN str(pdes) ELSE None,
              name        |-> IF truthy(name) THEN str(name) ELSE None,
              diameter    |-> dia,
              hazardous   |-> PyBool(PyEq(pha, Y)),
              approaches  |-> <<>>]

\* mutant: the designation alone when the name is absent
fullname_Fallback(self) ==
    IF self.name = None THEN self.designation
    ELSE Concat(Concat(self.designation, Blank), self.name)

\* NearEarthObject.fullname
fullname(self) == Concat(Concat(self.designation, Blank), self.name)

\* CloseApproach.__init__: the object, or the exception that escapes it
CloseApproach(des, cd, dist, v_rel) ==
    LET d        == float(dist)
        distance == IF IsExc(d) /\ d.exc \in {"ValueError", "TypeError"} THEN NaN ELSE d
        v        == float(v_rel)
        velocity == IF IsExc(v) /\ v.exc \in {"ValueError", "TypeError"} THEN NaN ELSE v
    IN  IF IsExc(distance) THEN distance
        ELSE IF IsExc(velocity) THEN velocity
        ELSE [t            |-> "CloseApproach",
              designation_ |-> IF truthy(des) THEN str(des) ELSE None,
              time         |-> cd_to_datetime(cd),
              distance     |-> distance,
              velocity     |-> velocity,
              neo          |-> None]

\* CloseApproach.time_str
time_str(self) == datetime_to_str(self.time)

\* format(x, ".2f") of a float with at most two decimal places
Format2f(x) ==
    LET scaled == IF x.e = 0 THEN x.m * 100 ELSE IF x.e = 1 THEN x.m * 10 ELSE x.m
    IN  PyStr(FloatRepr([t |-> "float", nan |-> FALSE, m |-> scaled, e |-> 2]))

\* the object reference phrase of CloseApproach.__str__
neo_reference(self) ==
    IF truthy(self.designation_)
    THEN Concat(By, IF truthy(self.neo) /\ truthy(self.neo.name)
                    THEN self.neo.name ELSE self.designation_)
    ELSE Concat(By, UnknownObject)

\* CloseApproach.__str__, by the parts the returned sentence is made of
CloseApproach__str__(self) ==
    [time_str      |-> time_str(self),
     dist_str      |-> IF isnan(self.distance) THEN UnknownDistance
                       ELSE Concat(Format2f(self.distance), Au),
     vel_str       |-> IF isnan(self.velocity) THEN UnknownVelocity
                       ELSE Concat(Format2f(self.velocity), KmPerS),
     neo_reference |-> neo_reference(self)]

\* the key of an approach in its NEO's approaches list
ApproachKey(ca) == <<ca.designation_, ca.time>>

(* ------------------------- raw inputs ---------------------------------- *)

DesignationInputs ==
    {None, PyStr(<<>>), PyStr(<<"4", "3", "3">>), PyInt(433), PyInt(0)}
NameInputs == {None, PyStr(<<>>), PyStr(<<"E", "r", "o", "s">>)}
HazardInputs == {Y, PyStr(<<"N">>), PyStr(<<"y">>), PyStr(<<>>), None}
DiameterInputs ==
    {None, PyStr(<<>>), PyStr(<<"a", "b", "c">>),
     PyStr(<<"1", "6", ".", "8", "4", "0">>), PyInt(2)}
DistanceInputs ==
    {None, PyStr(<<>>), PyStr(<<"1", ".", "2", ".", "3">>), PyStr(<<"0", ".", "1", "5">>)}
VelocityInputs ==
    {None, PyStr(<<>>), PyStr(<<"a", "b", "c">>), PyStr(<<" ", "1", ".", "5", " ">>)}
CalendarDates == {<<2020, "Jan", 1, 12, 30>>, <<1999, "Dec", 31, 23, 59>>}

(* ------------------------- records: construct, link, display ----------- *)

IsNeo(x) == x.t = "NearEarthObject"
IsCa(x) == x.t = "CloseApproach"

NewNearEarthObject ==
    /\ neoObj = None
    /\ \E pdes \in DesignationInputs, name \in NameInputs,
          pha \in HazardInputs, diameter \in DiameterInputs :
          /\ neoObj' = NearEarthObject(pdes, name, pha, diameter)
          /\ neoArgs' = [pdes |-> pdes, name |-> name, pha |-> pha, diameter |-> diameter]
    /\ UNCHANGED <<caObj, caArgs, shown, writeVars>>

NewCloseApproach ==
    /\ caObj = None
    /\ \E des \in DesignationInputs, cd \in CalendarDates,
          dist \in DistanceInputs, v_rel \in VelocityInputs :
          /\ caObj' = CloseApproach(des, cd, dist, v_rel)
          /\ caArgs' = [des |-> des, cd |-> cd, dist |-> dist, v_rel |-> v_rel]
    /\ UNCHANGED <<neoObj, neoArgs, shown, writeVars>>

\* ca linked to neo: neo gains the approach, ca refers to neo
Linked(ca, neo) ==
    [ca EXCEPT !.neo = [neo EXCEPT !.approaches = Append(@, ApproachKey(ca))]]

\* The database's linking pass: an approach is linked, once, to the NEO whose
\* primary designation its designation snapshot holds.
Link ==
    /\ IsNeo(neoObj) /\ IsCa(caObj)
    /\ caObj.neo = None
    /\ neoObj.designation = caObj.designation_
    /\ caObj' = Linked(caObj, neoObj)
    /\ neoObj' = caObj'.neo
    /\ UNCHANGED <<neoArgs, caArgs, shown, writeVars>>

ReadFullname ==
    /\ IsNeo(neoObj)
    /\ shown' = [op |-> "fullname", self |-> neoObj, value |-> fullname(neoObj)]
    /\ UNCHANGED <<neoObj, neoArgs, caObj, caArgs, writeVars>>

StrCloseApproach ==
    /\ IsCa(caObj)
    /\ shown' = [op |-> "__str__", self |-> caObj, value |-> CloseApproach__str__(caObj)]
    /\ UNCHANGED <<neoObj, neoArgs, caObj, caArgs, writeVars>>

NoFile == [exists |-> FALSE, data |-> <<>>]
NoHandle == [state |-> "none", written |-> <<>>]

Running == [t |-> "running"]

WriteIdle ==
    /\ pc = "idle" /\ fn = "none" /\ items = <<>> /\ ending = "stop" /\ pos = 0
    /\ f = NoHandle /\ prior = disk /\ output = <<>>
    /\ exc = None /\ result = Running /\ opens = 0

Init ==
    /\ neoObj = None /\ neoArgs = None
    /\ caObj = None /\ caArgs = None
    /\ shown = [op |-> "none"]
    /\ disk = NoFile
    /\ WriteIdle

Next ==
    \/ NewNearEarthObject
    \/ NewCloseApproach
    \/ Link
    \/ ReadFullname
    \/ StrCloseApproach

Spec == Init /\ [][Next]_vars

(* ------------------------- properties of the records ------------------- *)

\* What float() makes of the numeric raw inputs, as <<input, mantissa, places>>:
\* "16.840" is 16.84, 2 is 2.0, "0.15" is 0.15, " 1.5 " is 1.5.
NumericInputs ==
    {<<PyStr(<<"1", "6", ".", "8", "4", "0">>), 1684, 2>>,
     <<PyInt(2), 2, 0>>,
     <<PyStr(<<"0", ".", "1", "5">>), 15, 2>>,
     <<PyStr(<<" ", "1", ".", "5", " ">>), 15, 1>>}

StoredAsParsed(raw, stored) ==
    /\ stored.t = "float"
    /\ IF \E n \in NumericInputs : n[1] = raw
       THEN \E n \in NumericInputs :
               n[1] = raw /\ ~stored.nan /\ stored.m = n[2] /\ stored.e = n[3]
       ELSE stored.nan

C5_HazardousIffY ==
    neoArgs # None =>
        /\ IsNeo(neoObj)
        /\ neoObj.hazardous = PyBool(neoArgs.pha = PyStr(<<"Y">>))

C5_Witness ==
    /\ IsNeo(neoObj)
    /\ neoArgs.pha = PyStr(<<"y">>)
    /\ neoObj.hazardous = PyBool(FALSE)

\* The inputs that are false in a condition, and the string form of the others.
FalsyInputs == {None, PyStr(<<>>), PyInt(0)}
TextForms ==
    {<<PyStr(<<"4", "3", "3">>), <<"4", "3", "3">>>>,
     <<PyInt(433), <<"4", "3", "3">>>>,
     <<PyStr(<<"E", "r", "o", "s">>), <<"E", "r", "o", "s">>>>}

Normalised(raw, stored) ==
    /\ stored = None \/ (stored.t = "str" /\ stored.s # <<>>)
    /\ raw \in FalsyInputs => stored = None
    /\ raw \notin FalsyInputs =>
          \E tf \in TextForms : tf[1] = raw /\ stored = [t |-> "str", s |-> tf[2]]

\* C6: designation and name of a NearEarthObject, and the designation snapshot
\* of a CloseApproach, are absent for a falsy input and the input's string form
\* otherwise, and never the empty string.
C6_AbsentOrNonEmpty ==
    /\ IsNeo(neoObj) =>
          /\ Normalised(neoArgs.pdes, neoObj.designation)
          /\ Normalised(neoArgs.name, neoObj.name)
    /\ IsCa(caObj) => Normalised(caArgs.des, caObj.designation_)

C6_Witness ==
    /\ IsNeo(neoObj) /\ IsCa(caObj)
    /\ neoArgs.pdes = PyInt(433) /\ neoObj.designation = PyStr(<<"4", "3", "3">>)
    /\ neoArgs.name = PyStr(<<>>) /\ neoObj.name = None
    /\ caArgs.des = PyInt(0) /\ caObj.designation_ = None

\* C7: the object reference phrase of a CloseApproach's display string: linked,
\* the NEO's name when present and otherwise the NEO's designation; unlinked
\* with a designation snapshot, the snapshot; otherwise "an unknown object".
\* (A linked NEO with neither name nor designation is left open.)
C7_ReferenceAsClaimed ==
    shown.op = "__str__" =>
        LET ca == shown.self
            phrase == shown.value.neo_reference
        IN  IF ca.neo # None
            THEN IF ca.neo.name # None THEN phrase = PyStr(By.s \o ca.neo.name.s)
                 ELSE IF ca.neo.designation # None
                      THEN phrase = PyStr(By.s \o ca.neo.designation.s)
                      ELSE TRUE
            ELSE IF ca.designation_ # None
                 THEN phrase = PyStr(By.s \o ca.designation_.s)
                 ELSE phrase = PyStr(By.s \o UnknownObject.s)

fieldnames ==
    <<"datetime_utc", "distance_au", "velocity_km_s",
      "designation", "name", "diameter_km", "potentially_hazardous">>

Empty == PyStr(<<>>)

\* obj.name, an AttributeError on None
Attr(obj, name) == IF obj = None THEN Raised("AttributeError") ELSE obj[name]

\* the first exception among the values of a dict display, or the dict
Built(d) ==
    IF \E k \in DOMAIN d : IsExc(d[k])
    THEN d[CHOOSE k \in DOMAIN d : IsExc(d[k])]
    ELSE d

\* mutant: the hazardous flag is read from the NEO without the test for None
CsvRowDict_Unguarded(approach) ==
    LET neo == approach.neo
    IN  Built([datetime_utc  |-> time_str(approach),
               distance_au   |-> approach.distance,
               velocity_km_s |-> approach.velocity,
               designation   |-> IF truthy(neo) THEN Attr(neo, "designation") ELSE Empty,
               name          |-> IF truthy(neo) /\ truthy(Attr(neo, "name"))
                                 THEN Attr(neo, "name") ELSE Empty,
               diameter_km   |-> IF truthy(neo) THEN Attr(neo, "diameter") ELSE NaN,
               potentially_hazardous |-> Attr(neo, "hazardous")])

\* the dict write_to_csv passes to writer.writerow
CsvRowDict(approach) ==
    LET neo == approach.neo
    IN  Built([datetime_utc  |-> time_str(approach),
               distance_au   |-> approach.distance,
               velocity_km_s |-> approach.velocity,
               designation   |-> IF truthy(neo) THEN Attr(neo, "designation") ELSE Empty,
               name          |-> IF truthy(neo) /\ truthy(Attr(neo, "name"))
                                 THEN Attr(neo, "name") ELSE Empty,
               diameter_km   |-> IF truthy(neo) THEN Attr(neo, "diameter") ELSE NaN,
               potentially_hazardous |->
                                 IF truthy(neo) THEN Attr(neo, "hazardous") ELSE PyBool(FALSE)])

\* csv: None is written as the empty field, a string as it is, the rest by str()
CsvCell(v) == IF v = None THEN <<>> ELSE str(v).s

\* csv.DictWriter.writerow: the dict's values in the order of the fieldnames
DictRow(names, rowdict) == [i \in DOMAIN names |-> CsvCell(rowdict[names[i]])]

\* json: the token a scalar is written as
JsonScalar(v) ==
    CASE v.t = "NoneType" -> [json |-> "null"]
      [] v.t = "str"      -> [json |-> "string", s |-> v.s]
      [] v.t = "bool"     -> [json |-> IF v.b THEN "true" ELSE "false"]
      [] v.t = "float"    -> IF v.nan THEN [json |-> "NaN"]
                             ELSE [json |-> "number", text |-> FloatRepr(v)]

\* the entry write_to_json appends to output
JsonEntry(approach) ==
    LET neo == approach.neo
        inner == Built([designation |-> IF truthy(neo) THEN Attr(neo, "designation") ELSE Empty,
                        name        |-> IF truthy(neo) /\ truthy(Attr(neo, "name"))
                                        THEN Attr(neo, "name") ELSE Empty,
                        diameter_km |-> IF truthy(neo) THEN Attr(neo, "diameter") ELSE NaN,
                        potentially_hazardous |->
                                        IF truthy(neo) THEN Attr(neo, "hazardous")
                                        ELSE PyBool(FALSE)])
    IN  Built([datetime_utc  |-> time_str(approach),
               distance_au   |-> approach.distance,
               velocity_km_s |-> approach.velocity,
               neo           |-> inner])

\* json.dump(output, f, indent=2): the document written
JsonDocument(out) ==
    [indent |-> 2,
     list   |-> [i \in DOMAIN out |->
                    [datetime_utc  |-> JsonScalar(out[i].datetime_utc),
                     distance_au   |-> JsonScalar(out[i].distance_au),
                     velocity_km_s |-> JsonScalar(out[i].velocity_km_s),
                     neo |-> [k \in DOMAIN out[i].neo |-> JsonScalar(out[i].neo[k])]]]]

(* the records the exports are run on *)

Eros == NearEarthObject(PyStr(<<"4", "3", "3">>), PyStr(<<"E", "r", "o", "s">>), Y,
                        PyStr(<<"1", "6", ".", "8", "4", "0">>))
Unnamed == NearEarthObject(PyStr(<<"2", "0", "2", "0", " ", "A", "B">>), None,
                           PyStr(<<"N">>), PyStr(<<>>))
ErosApproach ==
    Linked(CloseApproach(PyStr(<<"4", "3", "3">>), <<2020, "Jan", 1, 12, 30>>,
                         PyStr(<<"0", ".", "1", "5">>), PyStr(<<" ", "1", ".", "5", " ">>)),
           Eros)
UnlinkedApproach ==
    CloseApproach(PyStr(<<"2", "0", "2", "0", " ", "A", "B">>), <<1999, "Dec", 31, 23, 59>>,
                  PyStr(<<>>), PyStr(<<"a", "b", "c">>))
UnnamedApproach ==
    Linked(CloseApproach(PyStr(<<"2", "0", "2", "0", " ", "A", "B">>), <<2020, "Jan", 1, 12, 30>>,
                         None, PyStr(<<"0", ".", "1", "5">>)),
           Unnamed)

Approaches == {ErosApproach, UnlinkedApproach, UnnamedApproach}

MaxResults == 2

RECURSIVE SeqsUpTo(_, _)
SeqsUpTo(S, n) ==
    IF n = 0 THEN {<<>>}
    ELSE SeqsUpTo(S, n - 1) \cup
         {Append(q, x) : q \in {r \in SeqsUpTo(S, n - 1) : Len(r) = n - 1}, x \in S}

OldFile == [exists |-> TRUE, data |-> <<"previous content">>]

(* write_to_csv *)

CallWriteToCsv ==
    /\ pc = "idle"
    /\ \E results \in SeqsUpTo(Approaches, MaxResults), e \in {"stop", "raise"} :
          items' = results /\ ending' = e
    /\ fn' = "write_to_csv"
    /\ pc' = "csv_open"
    /\ UNCHANGED <<pos, f, disk, prior, output, exc, result, opens, recordVars>>

\* open(filename, 'w', newline=''): the file is created or truncated
CsvOpen ==
    /\ pc = "csv_open"
    /\ f' = [state |-> "open", written |-> <<>>]
    /\ disk' = [exists |-> TRUE, data |-> <<>>]
    /\ opens' = opens + 1
    /\ pc' = "csv_header"
    /\ UNCHANGED <<fn, items, ending, pos, prior, output, exc, result, recordVars>>

\* open() fails: no file object, the error leaves the call
CsvOpenFails ==
    /\ pc = "csv_open"
    /\ opens' = opens + 1
    /\ exc' = Raised("OSError")
    /\ result' = Raised("OSError")
    /\ pc' = "done"
    /\ UNCHANGED <<fn, items, ending, pos, f, disk, prior, output, recordVars>>

\* writer.writeheader()
CsvWriteHeader ==
    /\ pc = "csv_header"
    /\ f' = [f EXCEPT !.written = Append(@, fieldnames)]
    /\ pc' = "csv_loop"
    /\ UNCHANGED <<fn, items, ending, pos, disk, prior, output, exc, result, opens, recordVars>>

CsvWriteHeaderFails ==
    /\ pc = "csv_header"
    /\ exc' = Raised("OSError")
    /\ pc' = "csv_exit"
    /\ UNCHANGED <<fn, items, ending, pos, f, disk, prior, output, result, opens, recordVars>>

\* mutant: a row equal to one already written is skipped
CsvWriteRow_Dedup ==
    /\ pc = "csv_loop" /\ pos < Len(items)
    /\ LET rowdict == CsvRowDict(items[pos + 1])
           row == DictRow(fieldnames, rowdict)
       IN  IF \E i \in 2..Len(f.written) : f.written[i] = row
           THEN UNCHANGED <<f, exc, pc>>
           ELSE /\ f' = [f EXCEPT !.written = Append(@, row)]
                /\ UNCHANGED <<exc, pc>>
    /\ pos' = pos + 1
    /\ UNCHANGED <<fn, items, ending, disk, prior, output, result, opens, recordVars>>

\* one turn of the loop: the next record, its dict, writer.writerow
CsvWriteRow ==
    /\ pc = "csv_loop" /\ pos < Len(items)
    /\ LET rowdict == CsvRowDict(items[pos + 1])
       IN  IF IsExc(rowdict)
           THEN exc' = rowdict /\ pc' = "csv_exit" /\ UNCHANGED f
           ELSE /\ f' = [f EXCEPT !.written = Append(@, DictRow(fieldnames, rowdict))]
                /\ UNCHANGED <<exc, pc>>
    /\ pos' = pos + 1
    /\ UNCHANGED <<fn, items, ending, disk, prior, output, result, opens, recordVars>>

CsvWriteRowFails ==
    /\ pc = "csv_loop" /\ pos < Len(items)
    /\ pos' = pos + 1
    /\ exc' = Raised("OSError")
    /\ pc' = "csv_exit"
    /\ UNCHANGED <<fn, items, ending, f, disk, prior, output, result, opens, recordVars>>

\* the iterable has no next record: it is exhausted, or it raises
CsvStop ==
    /\ pc = "csv_loop" /\ pos = Len(items)
    /\ exc' = IF ending = "raise" THEN Raised("StreamError") ELSE None
    /\ pc' = "csv_exit"
    /\ UNCHANGED <<fn, items, ending, pos, f, disk, prior, output, result, opens, recordVars>>

\* mutant: open() and close() without a with statement: an exception in
\* flight skips the close
CsvExit_LeakOnError ==
    /\ pc = "csv_exit"
    /\ IF exc = None
       THEN /\ disk' = [disk EXCEPT !.data = @ \o f.written]
            /\ f' = [state |-> "closed", written |-> <<>>]
       ELSE UNCHANGED <<disk, f>>
    /\ result' = exc
    /\ pc' = "done"
    /\ UNCHANGED <<fn, items, ending, pos, prior, output, exc, opens, recordVars>>

\* leaving the with block, normally or by an exception: the file object is
\* flushed and closed, and an exception in flight goes on to the caller
CsvExit ==
    /\ pc = "csv_exit"
    /\ disk' = [disk EXCEPT !.data = @ \o f.written]
    /\ f' = [state |-> "closed", written |-> <<>>]
    /\ result' = exc
    /\ pc' = "done"
    /\ UNCHANGED <<fn, items, ending, pos, prior, output, exc, opens, recordVars>>

(* write_to_json *)

\* mutant: the destination is opened before the loop reads the records
CallWriteToJson_OpenFirst ==
    /\ pc = "idle"
    /\ \E results \in SeqsUpTo(Approaches, MaxResults), e \in {"stop", "raise"} :
          items' = results /\ ending' = e
    /\ fn' = "write_to_json"
    /\ output' = <<>>
    /\ f' = [state |-> "open", written |-> <<>>]
    /\ disk' = [exists |-> TRUE, data |-> <<>>]
    /\ opens' = opens + 1
    /\ pc' = "json_loop"
    /\ UNCHANGED <<pos, prior, exc, result, recordVars>>

CallWriteToJson ==
    /\ pc = "idle"
    /\ \E results \in SeqsUpTo(Approaches, MaxResults), e \in {"stop", "raise"} :
          items' = results /\ ending' = e
    /\ fn' = "write_to_json"
    /\ output' = <<>>
    /\ pc' = "json_loop"
    /\ UNCHANGED <<pos, f, disk, prior, exc, result, opens, recordVars>>

\* mutant: the entry is put at the front of output
JsonAppend_Prepend ==
    /\ pc = "json_loop" /\ pos < Len(items)
    /\ output' = <<JsonEntry(items[pos + 1])>> \o output
    /\ pos' = pos + 1
    /\ UNCHANGED <<fn, items, ending, f, disk, prior, exc, result, pc, opens, recordVars>>

\* one turn of the loop: the next record, its entry, output.append
JsonAppend ==
    /\ pc = "json_loop" /\ pos < Len(items)
    /\ LET entry == JsonEntry(items[pos + 1])
       IN  IF IsExc(entry)
           THEN exc' = entry /\ result' = entry /\ pc' = "done" /\ UNCHANGED output
           ELSE output' = Append(output, entry) /\ UNCHANGED <<exc, result, pc>>
    /\ pos' = pos + 1
    /\ UNCHANGED <<fn, items, ending, f, disk, prior, opens, recordVars>>

\* the iterable has no next record: it is exhausted, or it raises
JsonStop ==
    /\ pc = "json_loop" /\ pos = Len(items)
    /\ IF ending = "raise"
       THEN exc' = Raised("StreamError") /\ result' = Raised("StreamError") /\ pc' = "done"
       ELSE pc' = "json_open" /\ UNCHANGED <<exc, result>>
    /\ UNCHANGED <<fn, items, ending, pos, f, disk, prior, output, opens, recordVars>>

\* open(filename, 'w')
JsonOpen ==
    /\ pc = "json_open"
    /\ f' = [state |-> "open", written |-> <<>>]
    /\ disk' = [exists |-> TRUE, data |-> <<>>]
    /\ opens' = opens + 1
    /\ pc' = "json_dump"
    /\ UNCHANGED <<fn, items, ending, pos, prior, output, exc, result, recordVars>>

JsonOpenFails ==
    /\ pc = "json_open"
    /\ opens' = opens + 1
    /\ exc' = Raised("OSError")
    /\ result' = Raised("OSError")
    /\ pc' = "done"
    /\ UNCHANGED <<fn, items, ending, pos, f, disk, prior, output, recordVars>>

\* json.dump(output, f, indent=2)
JsonDump ==
    /\ pc = "json_dump"
    /\ f' = [f EXCEPT !.written = Append(@, JsonDocument(output))]
    /\ pc' = "json_exit"
    /\ UNCHANGED <<fn, items, ending, pos, disk, prior, output, exc, result, opens, recordVars>>

JsonDumpFails ==
    /\ pc = "json_dump"
    /\ exc' = Raised("OSError")
    /\ pc' = "json_exit"
    /\ UNCHANGED <<fn, items, ending, pos, f, disk, prior, output, result, opens, recordVars>>

\* leaving the with block, as in write_to_csv
JsonExit ==
    /\ pc = "json_exit"
    /\ disk' = [disk EXCEPT !.data = @ \o f.written]
    /\ f' = [state |-> "closed", written |-> <<>>]
    /\ result' = exc
    /\ pc' = "done"
    /\ UNCHANGED <<fn, items, ending, pos, prior, output, exc, opens, recordVars>>

InitWrite ==
    /\ neoObj = None /\ neoArgs = None
    /\ caObj = None /\ caArgs = None
    /\ shown = [op |-> "none"]
    /\ disk \in {NoFile, OldFile}
    /\ WriteIdle

NextWrite ==
    \/ CallWriteToCsv
    \/ CsvOpen
    \/ CsvOpenFails
    \/ CsvWriteHeader
    \/ CsvWriteHeaderFails
    \/ CsvWriteRow
    \/ CsvWriteRowFails
    \/ CsvStop
    \/ CsvExit
    \/ CallWriteToJson
    \/ JsonAppend
    \/ JsonStop
    \/ JsonOpen
    \/ JsonOpenFails
    \/ JsonDump
    \/ JsonDumpFails
    \/ JsonExit

SpecWrite == InitWrite /\ [][NextWrite]_vars

(* ------------------------- properties of the exports ------------------- *)

Returned == pc = "done" /\ result = None
StreamError == Raised("StreamError")

\* The rows the csv file holds for the three records (the time as its fields).
ExpectedCsvRow(a) ==
    CASE a = ErosApproach ->
           <<<<2020, 1, 1, 12, 30>>, <<"0", ".", "1", "5">>, <<"1", ".", "5">>,
             <<"4", "3", "3">>, <<"E", "r", "o", "s">>, <<"1", "6", ".", "8", "4">>,
             <<"T", "r", "u", "e">>>>
      [] a = UnlinkedApproach ->
           <<<<1999, 12, 31, 23, 59>>, <<"n", "a", "n">>, <<"n", "a", "n">>,
             <<>>, <<>>, <<"n", "a", "n">>, <<"F", "a", "l", "s", "e">>>>
      [] a = UnnamedApproach ->
           <<<<2020, 1, 1, 12, 30>>, <<"n", "a", "n">>, <<"0", ".", "1", "5">>,
             <<"2", "0", "2", "0", " ", "A", "B">>, <<>>, <<"n", "a", "n">>,
             <<"F", "a", "l", "s", "e">>>>

JString(s) == [json |-> "string", s |-> s]
JNumber(text) == [json |-> "number", text |-> text]
JNaN == [json |-> "NaN"]

\* The records the json file holds for the three records.
ExpectedJsonRecord(a) ==
    CASE a = ErosApproach ->
           [datetime_utc |-> JString(<<2020, 1, 1, 12, 30>>),
            distance_au |-> JNumber(<<"0", ".", "1", "5">>),
            velocity_km_s |-> JNumber(<<"1", ".", "5">>),
            neo |-> [designation |-> JString(<<"4", "3", "3">>),
                     name |-> JString(<<"E", "r", "o", "s">>),
                     diameter_km |-> JNumber(<<"1", "6", ".", "8", "4">>),
                     potentially_hazardous |-> [json |-> "true"]]]
      [] a = UnlinkedApproach ->
           [datetime_utc |-> JString(<<1999, 12, 31, 23, 59>>),
            distance_au |-> JNaN,
            velocity_km_s |-> JNaN,
            neo |-> [designation |-> JString(<<>>),
                     name |-> JString(<<>>),
                     diameter_km |-> JNaN,
                     potentially_hazardous |-> [json |-> "false"]]]
      [] a = UnnamedApproach ->
           [datetime_utc |-> JString(<<2020, 1, 1, 12, 30>>),
            distance_au |-> JNaN,
            velocity_km_s |-> JNumber(<<"0", ".", "1", "5">>),
            neo |-> [designation |-> JString(<<"2", "0", "2", "0", " ", "A", "B">>),
                     name |-> JString(<<>>),
                     diameter_km |-> JNaN,
                     potentially_hazardous |-> [json |-> "false"]]]

\* C2: a record whose neo is unset makes neither export fail, and is written
\* with an empty designation, an empty name, the not-a-number diameter and a
\* false hazardous flag.
C2_UnlinkedDefaults ==
    pc = "done" =>
        /\ result \in {None, Raised("OSError"), StreamError}
        /\ result = None =>
              \A i \in DOMAIN items :
                  items[i].neo = None =>
                      IF fn = "write_to_csv"
                      THEN LET row == disk.data[i + 1]
                           IN  /\ row[4] = <<>> /\ row[5] = <<>>
                               /\ row[6] = <<"n", "a", "n">>
                               /\ row[7] = <<"F", "a", "l", "s", "e">>
                      ELSE LET neo == disk.data[1].list[i].neo
                           IN  /\ neo.designation = JString(<<>>)
                               /\ neo.name = JString(<<>>)
                               /\ neo.diameter_km = JNaN
                               /\ neo.potentially_hazardous = [json |-> "false"]

C2_Witness ==
    /\ Returned /\ fn = "write_to_json"
    /\ items = <<ErosApproach, UnlinkedApproach>>
    /\ disk.data[1].list[2].neo.diameter_km = JNaN

\* C3: write_to_csv writes the header row of the seven columns in their fixed
\* order and then one row per input record, the i-th row from the i-th record,
\* duplicates kept; the header alone for no records.
C3_CsvRowsInOrder ==
    (Returned /\ fn = "write_to_csv") =>
        /\ disk.exists
        /\ Len(disk.data) = Len(items) + 1
        /\ disk.data[1] = <<"datetime_utc", "distance_au", "velocity_km_s", "designation",
                            "name", "diameter_km", "potentially_hazardous">>
        /\ \A i \in DOMAIN items : disk.data[i + 1] = ExpectedCsvRow(items[i])

C3_Witness ==
    /\ Returned /\ fn = "write_to_csv"
    /\ items = <<UnnamedApproach, UnnamedApproach>>
    /\ Len(disk.data) = 3
    /\ disk.data[2] = disk.data[3]

\* C4: write_to_json writes one top-level sequence with one nested record per
\* input record, the i-th from the i-th record; the empty sequence for no
\* records.
C4_JsonRecordsInOrder ==
    (Returned /\ fn = "write_to_json") =>
        /\ disk.exists
        /\ Len(disk.data) = 1
        /\ Len(disk.data[1].list) = Len(items)
        /\ \A i \in DOMAIN items : disk.data[1].list[i] = ExpectedJsonRecord(items[i])

C4_Witness ==
    /\ Returned /\ fn = "write_to_json"
    /\ items = <<UnnamedApproach, ErosApproach>>
    /\ Len(disk.data[1].list) = 2

\* C8: when a call has ended, in whatever way, the file object it opened is
\* closed; the destination was opened at most once, and an error met on the
\* way is the call's outcome.
C8_HandleReleased ==
    /\ opens <= 1
    /\ f.state = "open" => pc \in {"csv_header", "csv_loop", "csv_exit", "json_dump", "json_exit"}
    /\ pc = "done" => (f.state # "open" /\ result = exc)

C8_Witness ==
    /\ pc = "done" /\ fn = "write_to_csv"
    /\ result = StreamError
    /\ pos = 1
    /\ f.state = "closed"

\* C10: write_to_json opens the destination only after it has read every
\* record: if the iterable raises, the destination is not opened and keeps
\* its content. write_to_csv has opened the destination and written the header
\* before it reads a record: if the iterable raises, the destination holds
\* the header and the rows of the records before.
C10_OpenBeforeOrAfterReading ==
    /\ (fn = "write_to_json" /\ opens > 0) => (pos = Len(items) /\ ending = "stop")
    /\ (fn = "write_to_json" /\ pc = "done" /\ result = StreamError) =>
          (opens = 0 /\ f.state = "none" /\ disk = prior)
    /\ (fn = "write_to_csv" /\ (pos > 0 \/ exc = StreamError)) =>
          (opens = 1 /\ (disk.data \o f.written)[1] = fieldnames)
    /\ (fn = "write_to_csv" /\ pc = "done" /\ result = StreamError) =>
          /\ Len(disk.data) = Len(items) + 1
          /\ disk.data[1] = fieldnames
          /\ \A i \in DOMAIN items : disk.data[i + 1] = ExpectedCsvRow(items[i])

C10_Witness ==
    /\ fn = "write_to_json" /\ pc = "done" /\ result = StreamError
    /\ pos = 2
    /\ prior = OldFile /\ disk = OldFile

====
